---- MODULE Spec2Model ----
(***************************************************************************)
(* travel_ura (src/main.rs): one request per stop to a URA prediction      *)
(* feed, each in its own thread, the line-delimited JSON body parsed into   *)
(* Predictions, the per-stop results collected over one channel per thread  *)
(* and combined by PredictionsCombinator::intersect.                        *)
(*                                                                          *)
(* Three specifications share the variables:                                *)
(*   Spec             the program: worker threads, channels, main           *)
(*   FairSpec         the program with fair scheduling, on one response of  *)
(*                    each kind                                             *)
(*   CombSpec         intersect applied to bounded input sequences          *)
(*   MillisSpec       datetime_from_millis applied to bounded timestamps    *)
(***************************************************************************)
EXTENDS Integers, Sequences, FiniteSets, TLC

VARIABLES
    \* the program (main and the worker threads)
    nstops,       \* number of STOP arguments; stop i stands for the i-th argument
    response,     \* response[i]: what the server answers to the request for stop i
    ordered,      \* !arg_matches.is_present("unordered"); also intersect's argument
    wpc,          \* wpc[i]: worker i is at "fetch", "send", "done" or "panicked"
    wres,         \* wres[i]: the Result worker i got from Request::send
    chan,         \* chan[i]: the messages in flight on worker i's channel
    sent,         \* sent[i]: number of tx.send calls worker i has made
    mainpc,       \* "collect", "intersect" or "exited" (or "idle")
    results,      \* main's results vector, as far as collected
    rxi,          \* number of receivers main's iteration has consumed
    exit_status,  \* the process's exit status once main has exited (-1 before)
    stdout,       \* what main printed: an error, or the intersection it formats
    completion,   \* history: the workers in the order their sends happened
    \* intersect as a function (CombSpec)
    input,        \* the sequence of Predictions intersect is called on
    cpc,          \* "build" or "returned" (or "idle")
    output,       \* the Option<Predictions> intersect returned
    \* datetime_from_millis as a function (MillisSpec)
    timestamp,    \* the argument
    mpc,          \* "call" or "returned" (or "idle")
    converted     \* the outcome of the call

vars == <<nstops, response, ordered, wpc, wres, chan, sent, mainpc, results, rxi,
          exit_status, stdout, completion, input, cpc, output, timestamp, mpc,
          converted>>

progVars == <<nstops, response, wpc, wres, chan, sent, mainpc, results, rxi,
              exit_status, stdout, completion>>
combVars == <<input, cpc, output>>
millisVars == <<timestamp, mpc, converted>>

-----------------------------------------------------------------------------
(* Bounds *)

\* most sets in one call of intersect
MaxSets == 3
\* most predictions in all the sets of one call of intersect together
MaxTotal == 3
\* timestamps handed to datetime_from_millis lie in -MaxMillis..MaxMillis
MaxMillis == 1500
\* most STOP arguments
MaxStops == 2
\* most prediction lines in one response body
MaxPredLines == 1

TripIds == {1, 2}

-----------------------------------------------------------------------------
(* datetime_from_millis *)

\* Rust's i64 `/`: the quotient truncated toward zero
TruncDiv(a, b) == IF a >= 0 THEN a \div b ELSE -((-a) \div b)

\* Rust's i64 `%`: the remainder has the sign of the dividend
TruncRem(a, b) == a - b * TruncDiv(a, b)

\* `x as u32` for an i64 x with |x| < 2^31: the low 32 bits of the two's
\* complement, kept as two 16-bit limbs (hi * 2^16 + lo)
AsU32(x) == [hi |-> (x \div (2^16)) % (2^16), lo |-> x % (2^16)]

\* chrono's NaiveDateTime::from_timestamp accepts nsecs < 2_000_000_000
\* (= 30517 * 2^16 + 37888) and panics otherwise
NsecsValid(u) == u.hi < 30517 \/ (u.hi = 30517 /\ u.lo < 37888)

\* the value of a u32 that NsecsValid accepts
U32Value(u) == u.hi * (2^16) + u.lo

\* The outcome of datetime_from_millis(timestamp): the secs and nsecs it
\* computes and whether from_timestamp panics on them.
datetime_from_millis(ts) ==
    LET secs == TruncDiv(ts, 1000)
        nsecs == AsU32(TruncRem(ts, 1000) * 1000000)
    IN  [panicked |-> ~NsecsValid(nsecs), secs |-> secs, nsecs |-> nsecs]

\* the DateTime a call that does not panic returns
DateTimeOf(r) == [secs |-> r.secs, nsecs |-> U32Value(r.nsecs)]

\* DateTime's Ord: by instant
DtLE(a, b) == a.secs < b.secs \/ (a.secs = b.secs /\ a.nsecs <= b.nsecs)

-----------------------------------------------------------------------------
(* PredictionsCombinator::intersect *)

EmptyMap == <<>>

\* HashMap::insert
MapInsert(m, k, v) == [x \in (DOMAIN m) \cup {k} |-> IF x = k THEN v ELSE m[x]]

\* HashMap::remove (the map it leaves)
MapRemove(m, k) == [x \in (DOMAIN m) \ {k} |-> m[x]]

\* HashMap::from_iter over (trip_id, prediction) pairs: a later pair replaces
\* an earlier one with the same key
RECURSIVE FromIter(_)
FromIter(preds) ==
    IF preds = <<>> THEN EmptyMap
    ELSE LET p == preds[Len(preds)]
         IN  MapInsert(FromIter(SubSeq(preds, 1, Len(preds) - 1)), p.trip_id, p)

\* Keep with the order enforced whatever the flag says
KeepIgnoresFlag(ord, pred, p) == DtLE(pred.estimated_time, p.estimated_time)

\* Keep with a strict comparison: simultaneous times do not pass
KeepStrict(ord, pred, p) ==
    ~ord \/ (ord /\ ~DtLE(p.estimated_time, pred.estimated_time))

\* the condition of line 167
Keep(ord, pred, p) ==
    ~ord \/ (ord /\ DtLE(pred.estimated_time, p.estimated_time))

\* Kept with the current set's record in place of the carried one
KeptCurrent(pred, p) == p

\* the record line 168 inserts
Kept(pred, p) == pred

\* InnerStep with a trip_id the working map lacks let into the new map
InnerStepKeepsAbsent(st, p, ord) ==
    IF p.trip_id \in DOMAIN st.old
    THEN LET pred == st.old[p.trip_id]
         IN  [old |-> MapRemove(st.old, p.trip_id),
              new |-> IF ~ord \/ DtLE(pred.estimated_time, p.estimated_time)
                      THEN MapInsert(st.new, p.trip_id, pred)
                      ELSE st.new]
    ELSE [old |-> st.old, new |-> MapInsert(st.new, p.trip_id, p)]

\* One iteration of the inner loop: st.old is predictions_map, st.new is
\* new_predictions_map.
InnerStep(st, p, ord) ==
    IF p.trip_id \in DOMAIN st.old
    THEN LET pred == st.old[p.trip_id]
         IN  [old |-> MapRemove(st.old, p.trip_id),
              new |-> IF Keep(ord, pred, p)
                      THEN MapInsert(st.new, p.trip_id, Kept(pred, p))
                      ELSE st.new]
    ELSE st

RECURSIVE InnerLoop(_, _, _)
InnerLoop(st, preds, ord) ==
    IF preds = <<>> THEN st
    ELSE InnerLoop(InnerStep(st, Head(preds), ord), Tail(preds), ord)

\* One iteration of the outer loop: the map after the set `predictions`
OuterStep(map, predictions, ord) ==
    InnerLoop([old |-> map, new |-> EmptyMap], predictions.predictions, ord).new

RECURSIVE OuterLoop(_, _, _)
OuterLoop(map, sets, ord) ==
    IF sets = <<>> THEN map
    ELSE OuterLoop(OuterStep(map, Head(sets), ord), Tail(sets), ord)

\* predictions_map when the loops are over (sets non-empty)
IntersectMap(sets, ord) ==
    OuterLoop(FromIter(Head(sets).predictions), Tail(sets), ord)

IsSorted(s) ==
    \A i \in 1..(Len(s) - 1) : DtLE(s[i].estimated_time, s[i + 1].estimated_time)

\* drain() yields the values in an arbitrary order and sort_by_key is stable:
\* every ascending arrangement of the values is a possible vector.
SortedDrains(map) ==
    LET vals == {map[k] : k \in DOMAIN map}
        n == Cardinality(DOMAIN map)
    IN  {s \in [1..n -> vals] :
            /\ \A k \in DOMAIN map : \E i \in 1..n : s[i] = map[k]
            /\ IsSorted(s)}

None == [some |-> FALSE, time |-> 0, predictions |-> <<>>]

Some(t, preds) == [some |-> TRUE, time |-> t, predictions |-> preds]

\* the time of the result
ResultTime(sets) == Head(sets).time

\* the values intersect may return on sets
Intersect(sets, ord) ==
    IF sets = <<>> THEN {None}
    ELSE {Some(ResultTime(sets), v) : v \in SortedDrains(IntersectMap(sets, ord))}

-----------------------------------------------------------------------------
(* The variables of the parts a specification does not run *)

ProgIdle ==
    /\ nstops = 0
    /\ response = <<>>
    /\ wpc = <<>>
    /\ wres = <<>>
    /\ chan = <<>>
    /\ sent = <<>>
    /\ mainpc = "idle"
    /\ results = <<>>
    /\ rxi = 0
    /\ exit_status = -1
    /\ stdout = <<>>
    /\ completion = <<>>

CombIdle ==
    /\ input = <<>>
    /\ cpc = "idle"
    /\ output = None

MillisIdle ==
    /\ timestamp = 0
    /\ mpc = "idle"
    /\ converted = datetime_from_millis(0)

-----------------------------------------------------------------------------
(* CombSpec: intersect on bounded inputs *)

SeqsUpTo(S, n) == UNION {[1..k -> S] : k \in 0..n}

\* the millisecond values the predictions' times are made from
TimesMs == {900, 1000, 1100}

EstimatedTimes == {DateTimeOf(datetime_from_millis(ms)) : ms \in TimesMs}

CaptureTimes == {DateTimeOf(datetime_from_millis(ms)) : ms \in {500}}

PredictionPool ==
    [stop_point_name : {"stop"}, line_name : {"33"}, destination_text : {"dest"},
     trip_id : TripIds, estimated_time : EstimatedTimes]

\* the Predictions holding exactly k predictions
SetsOfSize(k) ==
    {[time |-> t, predictions |-> ps] : t \in CaptureTimes, ps \in [1..k -> PredictionPool]}

\* the number of predictions in all the sets of a sequence together
RECURSIVE Total(_)
Total(sets) == IF sets = <<>> THEN 0 ELSE Len(Head(sets).predictions) + Total(Tail(sets))

CombInit ==
    /\ input = <<>>
    /\ ordered \in BOOLEAN
    /\ cpc = "build"
    /\ output = None
    /\ ProgIdle
    /\ MillisIdle

\* The caller puts one more Predictions at the end of the sequence it will
\* call intersect on.
PushSet ==
    /\ cpc = "build"
    /\ Len(input) < MaxSets
    /\ \E k \in 0..(MaxTotal - Total(input)) : \E set \in SetsOfSize(k) :
          input' = Append(input, set)
    /\ UNCHANGED <<cpc, output, ordered, progVars, millisVars>>

\* results.intersect(ordered)
CallIntersect ==
    /\ cpc = "build"
    /\ output' \in Intersect(input, ordered)
    /\ cpc' = "returned"
    /\ UNCHANGED <<input, ordered, progVars, millisVars>>

CombNext == PushSet \/ CallIntersect

CombSpec == CombInit /\ [][CombNext]_vars

-----------------------------------------------------------------------------
(* MillisSpec: datetime_from_millis on bounded timestamps *)

MillisInit ==
    /\ timestamp \in (-MaxMillis)..MaxMillis
    /\ mpc = "call"
    /\ converted = datetime_from_millis(0)
    /\ ordered = TRUE
    /\ ProgIdle
    /\ CombIdle

CallDatetimeFromMillis ==
    /\ mpc = "call"
    /\ converted' = datetime_from_millis(timestamp)
    /\ mpc' = "returned"
    /\ UNCHANGED <<timestamp, ordered, progVars, combVars>>

MillisNext == CallDatetimeFromMillis

MillisSpec == MillisInit /\ [][MillisNext]_vars

-----------------------------------------------------------------------------
(* The feed: lines of JSON, as serde_json reads them *)

JStr(str) == [kind |-> "string", s |-> str, n |-> 0]

JNum(num) == [kind |-> "number", s |-> "", n |-> num]

\* a line that is no JSON text: from_str returns Err
InvalidLine == [valid |-> FALSE, array |-> FALSE, elems |-> <<>>]

\* a line that is JSON but no array: as_array returns None
ObjectLine == [valid |-> TRUE, array |-> FALSE, elems |-> <<>>]

ArrayLine(elems) == [valid |-> TRUE, array |-> TRUE, elems |-> elems]

\* the metadata line of a URA feed: [4, "1.0", <timestamp>]
MetaLine(ms) == ArrayLine(<<JNum(4), JStr("1.0"), JNum(ms)>>)

\* a prediction line: [1, StopPointName, LineName, DestinationText, TripID,
\* EstimatedTime]
PredLine(trip, ms) ==
    ArrayLine(<<JNum(1), JStr("stop"), JStr("33"), JStr("dest"), JNum(trip), JNum(ms)>>)

\* Value::as_i64, Value::as_u64 (on numbers >= 0) and Value::as_string
as_i64(v) == [some |-> v.kind = "number", n |-> v.n]

as_u64(v) == [some |-> v.kind = "number" /\ v.n >= 0, n |-> v.n]

as_string(v) == [some |-> v.kind = "string", s |-> v.s]

\* element idx (from 0) of the array exists
HasIndex(line, idx) == Len(line.elems) > idx

At(line, idx) == line.elems[idx + 1]

\* Lines 41-45: whether reading the metadata line panics (an unwrap on
\* Err or None, an index out of bounds, or datetime_from_millis), and the
\* time it gives otherwise.
ParseMeta(line) ==
    IF ~line.valid \/ ~line.array \/ ~HasIndex(line, 2) THEN [panicked |-> TRUE]
    ELSE IF ~as_i64(At(line, 2)).some THEN [panicked |-> TRUE]
    ELSE LET dt == datetime_from_millis(as_i64(At(line, 2)).n)
         IN  IF dt.panicked THEN [panicked |-> TRUE]
             ELSE [panicked |-> FALSE, time |-> DateTimeOf(dt)]

\* Lines 47-62: the same for a prediction line, and the Prediction it gives.
ParsePrediction(line) ==
    IF ~line.valid \/ ~line.array THEN [panicked |-> TRUE]
    ELSE IF ~HasIndex(line, 1) \/ ~as_string(At(line, 1)).some THEN [panicked |-> TRUE]
    ELSE IF ~HasIndex(line, 2) \/ ~as_string(At(line, 2)).some THEN [panicked |-> TRUE]
    ELSE IF ~HasIndex(line, 3) \/ ~as_string(At(line, 3)).some THEN [panicked |-> TRUE]
    ELSE IF ~HasIndex(line, 4) \/ ~as_u64(At(line, 4)).some THEN [panicked |-> TRUE]
    ELSE IF ~HasIndex(line, 5) \/ ~as_i64(At(line, 5)).some THEN [panicked |-> TRUE]
    ELSE LET dt == datetime_from_millis(as_i64(At(line, 5)).n)
         IN  IF dt.panicked THEN [panicked |-> TRUE]
             ELSE [panicked |-> FALSE,
                   prediction |->
                       [stop_point_name |-> as_string(At(line, 1)).s,
                        line_name |-> as_string(At(line, 2)).s,
                        destination_text |-> as_string(At(line, 3)).s,
                        trip_id |-> as_u64(At(line, 4)).n,
                        estimated_time |-> DateTimeOf(dt)]]

\* Lines 46-63: the loop over the remaining lines, pushing onto acc
RECURSIVE ParseLines(_, _)
ParseLines(lines, acc) ==
    IF lines = <<>> THEN [panicked |-> FALSE, predictions |-> acc]
    ELSE LET r == ParsePrediction(Head(lines))
         IN  IF r.panicked THEN [panicked |-> TRUE]
             ELSE ParseLines(Tail(lines), Append(acc, r.prediction))

\* What Request::send gives, or that it panics
OkResult(preds) == [kind |-> "ok", value |-> preds, error |-> <<>>]

ErrResult(variant, detail) == [kind |-> "err", value |-> None, error |-> <<variant, detail>>]

Panic == [kind |-> "panic", value |-> None, error |-> <<>>]

\* Lines 38-68: the arm for StatusCode::Ok
ParseBody(body) ==
    IF body = <<>> THEN Panic
    ELSE LET meta == ParseMeta(Head(body))
         IN  IF meta.panicked THEN Panic
             ELSE LET rest == ParseLines(Tail(body), <<>>)
                  IN  IF rest.panicked THEN Panic
                      ELSE OkResult([time |-> meta.time, predictions |-> rest.predictions])

\* Request::with_stop_point_name(stop).send(base_url), the server answering resp
SendRequest(stop, resp) ==
    IF resp.transport_error THEN ErrResult("HyperError", 0)
    ELSE IF resp.status = 200 THEN ParseBody(resp.body)
    ELSE IF resp.status = 416 THEN ErrResult("BadStopPointName", stop)
    ELSE ErrResult("UnknownStatus", resp.status)

-----------------------------------------------------------------------------
(* Spec: main and the worker threads *)

Response(err, status, body) == [transport_error |-> err, status |-> status, body |-> body]

\* metadata lines on which the parser fails
BadMetaLines ==
    {InvalidLine, ObjectLine, ArrayLine(<<JNum(4), JStr("1.0")>>), MetaLine(-500)}

\* prediction lines: two that parse, one with five elements, one whose TripID
\* is a string
PredLinePool ==
    {PredLine(1, 900), PredLine(1, 1100),
     ArrayLine(<<JNum(1), JStr("stop"), JStr("33"), JStr("dest"), JNum(1)>>),
     ArrayLine(<<JNum(1), JStr("stop"), JStr("33"), JStr("dest"), JStr("x"), JNum(900)>>)}

Bodies ==
    {<<>>}
      \cup {<<m>> : m \in BadMetaLines}
      \cup {<<MetaLine(500)>> \o ps : ps \in SeqsUpTo(PredLinePool, MaxPredLines)}

\* what the server may answer: no answer (a transport error), 416, 500, or
\* 200 with a body
Responses ==
    {Response(TRUE, 0, <<>>), Response(FALSE, 416, <<>>), Response(FALSE, 500, <<>>)}
      \cup {Response(FALSE, 200, b) : b \in Bodies}

NoResult == [kind |-> "none", value |-> None, error |-> <<>>]

\* one response of each kind: the four failures (no answer, 416, another
\* status, a body the parser fails on) and two bodies that parse
CoreResponses ==
    {Response(TRUE, 0, <<>>), Response(FALSE, 416, <<>>), Response(FALSE, 500, <<>>),
     Response(FALSE, 200, <<>>), Response(FALSE, 200, <<MetaLine(500)>>),
     Response(FALSE, 200, <<MetaLine(500), PredLine(1, 900)>>)}

\* The state after line 235: every worker thread is spawned and holds its tx,
\* main holds the receivers in the order of the stops. The server's answers
\* are drawn from the set R.
InitWith(R) ==
    /\ nstops \in 1..MaxStops
    /\ response \in [1..nstops -> R]
    /\ ordered \in BOOLEAN
    /\ wpc = [i \in 1..nstops |-> "fetch"]
    /\ wres = [i \in 1..nstops |-> NoResult]
    /\ chan = [i \in 1..nstops |-> <<>>]
    /\ sent = [i \in 1..nstops |-> 0]
    /\ mainpc = "collect"
    /\ results = <<>>
    /\ rxi = 0
    /\ exit_status = -1
    /\ stdout = <<>>
    /\ completion = <<>>
    /\ CombIdle
    /\ MillisIdle

Init == InitWith(Responses)

\* the process is alive: exit (or main's panic) ends every thread
Alive == mainpc # "exited"

\* Worker i runs Request::send. A panic in it unwinds the thread, which drops
\* tx without a send.
Fetch(i) ==
    /\ Alive
    /\ wpc[i] = "fetch"
    /\ LET r == SendRequest(i, response[i])
       IN  /\ wres' = [wres EXCEPT ![i] = r]
           /\ wpc' = [wpc EXCEPT ![i] = IF r.kind = "panic" THEN "panicked" ELSE "send"]
    /\ UNCHANGED <<nstops, response, ordered, chan, sent, mainpc, results, rxi,
                   exit_status, stdout, completion, combVars, millisVars>>

\* Worker i sends the Result on its channel and ends.
Send(i) ==
    /\ Alive
    /\ wpc[i] = "send"
    /\ chan' = [chan EXCEPT ![i] = Append(@, wres[i])]
    /\ sent' = [sent EXCEPT ![i] = @ + 1]
    /\ wpc' = [wpc EXCEPT ![i] = "done"]
    /\ completion' = Append(completion, i)
    /\ UNCHANGED <<nstops, response, ordered, wres, mainpc, results, rxi,
                   exit_status, stdout, combVars, millisVars>>

\* NextRx with the receivers taken from the last stop's to the first's
NextRxReversed == nstops - rxi

\* the receiver main's iteration is at
NextRx == rxi + 1

\* OnResult with an Err passed over: the stop is left out and main goes on
OnResultSkipsErr(msg) ==
    IF msg.kind = "ok" THEN [exit |-> FALSE, push |-> <<msg.value>>]
    ELSE [exit |-> FALSE, push |-> <<>>]

\* The match of lines 239-247 on a received Result: whether main exits, and
\* what it adds to results.
OnResult(msg) ==
    IF msg.kind = "ok" THEN [exit |-> FALSE, push |-> <<msg.value>>]
    ELSE [exit |-> TRUE, push |-> <<>>]

ErrorLine(err) == [kind |-> "error", error |-> err, result |-> None]

ResultText(r) == [kind |-> "result", error |-> <<>>, result |-> r]

\* rx.recv() returns a message of the channel main is at.
RecvMessage ==
    /\ mainpc = "collect"
    /\ chan[NextRx] # <<>>
    /\ LET msg == Head(chan[NextRx])
           on == OnResult(msg)
       IN  /\ chan' = [chan EXCEPT ![NextRx] = Tail(@)]
           /\ IF on.exit
              THEN /\ stdout' = Append(stdout, ErrorLine(msg.error))
                   /\ exit_status' = 1
                   /\ mainpc' = "exited"
                   /\ UNCHANGED <<results, rxi>>
              ELSE /\ results' = results \o on.push
                   /\ rxi' = rxi + 1
                   /\ mainpc' = IF rxi + 1 = nstops THEN "intersect" ELSE "collect"
                   /\ UNCHANGED <<stdout, exit_status>>
    /\ UNCHANGED <<nstops, response, ordered, wpc, wres, sent, completion,
                   combVars, millisVars>>

\* rx.recv() returns Err(RecvError): the channel is empty and its sender was
\* dropped. The unwrap panics in the main thread and the process ends with
\* status 101.
RecvDisconnected ==
    /\ mainpc = "collect"
    /\ chan[NextRx] = <<>>
    /\ wpc[NextRx] \in {"done", "panicked"}
    /\ exit_status' = 101
    /\ mainpc' = "exited"
    /\ UNCHANGED <<nstops, response, ordered, wpc, wres, chan, sent, results, rxi,
                   stdout, completion, combVars, millisVars>>

\* Lines 249-250: intersect, unwrap, print; main returns.
Combine ==
    /\ mainpc = "intersect"
    /\ \E r \in Intersect(results, ordered) :
          IF r.some
          THEN /\ stdout' = Append(stdout, ResultText(r))
               /\ exit_status' = 0
          ELSE /\ stdout' = stdout
               /\ exit_status' = 101
    /\ mainpc' = "exited"
    /\ UNCHANGED <<nstops, response, ordered, wpc, wres, chan, sent, results, rxi,
                   completion, combVars, millisVars>>

Next ==
    \/ \E i \in 1..nstops : Fetch(i)
    \/ \E i \in 1..nstops : Send(i)
    \/ RecvMessage
    \/ RecvDisconnected
    \/ Combine

Spec == Init /\ [][Next]_vars

\* Threads that can run do run: the operating system schedules every thread.
FairSpec == InitWith(CoreResponses) /\ [][Next]_vars /\ WF_vars(Next)

-----------------------------------------------------------------------------
(* Properties of intersect (CombSpec) *)

Returned == cpc = "returned"

Range(seq) == {seq[i] : i \in DOMAIN seq}

TripsOf(preds) == {preds[i].trip_id : i \in DOMAIN preds}

\* no two predictions of the set share a trip_id
UniqueTrips(set) ==
    \A i, j \in DOMAIN set.predictions :
        i # j => set.predictions[i].trip_id # set.predictions[j].trip_id

AllUnique(sets) == \A i \in DOMAIN sets : UniqueTrips(sets[i])

\* the estimated times the set gives for the trip
TimesOf(set, trip) ==
    {set.predictions[i].estimated_time :
        i \in {j \in DOMAIN set.predictions : set.predictions[j].trip_id = trip}}

Count(seq, r) == Cardinality({i \in DOMAIN seq : seq[i] = r})

\* the two sequences hold the same records, each as often
SameRecords(a, b) ==
    /\ Len(a) = Len(b)
    /\ \A i \in DOMAIN a : Count(a, a[i]) = Count(b, a[i])

\* the sequence is one set repeated
IsRepeat(sets) == sets # <<>> /\ \A i \in DOMAIN sets : sets[i] = sets[1]

\* C1: with ordered = true and N >= 2 sets of unique trip_ids, every trip of
\* the output has non-decreasing estimated times over each pair of
\* consecutive input sets.
ClaimC1 ==
    (Returned /\ ordered /\ Len(input) >= 2 /\ AllUnique(input)) =>
        \A j \in DOMAIN output.predictions :
            \A i \in 1..(Len(input) - 1) :
                \A a \in TimesOf(input[i], output.predictions[j].trip_id) :
                    \A b \in TimesOf(input[i + 1], output.predictions[j].trip_id) :
                        DtLE(a, b)

\* C2: for a non-empty input sequence and either value of ordered, every
\* trip_id of the output is a trip_id of every input set.
ClosureC2 ==
    (Returned /\ input # <<>>) =>
        /\ output.some
        /\ \A i \in DOMAIN input :
              TripsOf(output.predictions) \subseteq TripsOf(input[i].predictions)

\* a trip_id of the first set is missing from the second and back in the third
WitnessC2 ==
    /\ Returned
    /\ Len(input) = 3
    /\ \E t \in TripIds :
          /\ t \in TripsOf(input[1].predictions)
          /\ t \notin TripsOf(input[2].predictions)
          /\ t \in TripsOf(input[3].predictions)

\* the sequence with its sets rearranged by the permutation
Permuted(sets, perm) == [i \in DOMAIN sets |-> sets[perm[i]]]

\* C7: with ordered = false, every permutation of a non-empty input sequence
\* gives the same set of trip_ids as the sequence itself.
CommutativeC7 ==
    (Returned /\ ~ordered /\ input # <<>>) =>
        \A perm \in Permutations(DOMAIN input) :
            DOMAIN IntersectMap(Permuted(input, perm), FALSE)
                = TripsOf(output.predictions)

\* an unordered call that keeps a trip whose time at the first set is later
\* than at the second
WitnessC7 ==
    /\ Returned
    /\ ~ordered
    /\ Len(input) >= 2
    /\ \E j \in DOMAIN output.predictions :
          \E b \in TimesOf(input[2], output.predictions[j].trip_id) :
              ~DtLE(output.predictions[j].estimated_time, b)

\* C8 as stated: for every set S and N >= 1, intersect on S repeated N times
\* returns, for either value of ordered, exactly the predictions of S, sorted
\* ascending by estimated_time, with time S.time.
ClaimC8 ==
    (Returned /\ IsRepeat(input)) =>
        /\ output.some
        /\ output.time = input[1].time
        /\ SameRecords(output.predictions, input[1].predictions)
        /\ IsSorted(output.predictions)

\* C8 amended: the same for every set S whose trip_ids are unique.
IdempotenceC8 ==
    (Returned /\ IsRepeat(input) /\ UniqueTrips(input[1])) =>
        /\ output.some
        /\ output.time = input[1].time
        /\ SameRecords(output.predictions, input[1].predictions)
        /\ IsSorted(output.predictions)

\* a non-empty set of unique trip_ids, repeated at least twice
WitnessC8 ==
    /\ Returned
    /\ IsRepeat(input)
    /\ Len(input) >= 2
    /\ UniqueTrips(input[1])
    /\ input[1].predictions # <<>>

\* the output record is a record of the first set and no input set gives its
\* trip an earlier time
Representative(r) ==
    /\ r \in Range(input[1].predictions)
    /\ \A i \in DOMAIN input :
          \A t \in TimesOf(input[i], r.trip_id) : DtLE(r.estimated_time, t)

\* C10 as stated, for either value of ordered: the record kept for a trip of
\* the output is the one of the first set and its estimated_time is the
\* earliest of the trip's times over all the input sets. It is taken on sets
\* of unique trip_ids, where it fails all the same.
ClaimC10 ==
    (Returned /\ input # <<>> /\ AllUnique(input)) =>
        \A j \in DOMAIN output.predictions : Representative(output.predictions[j])

\* C10 amended: the same with ordered = true and sets of unique trip_ids.
RepresentativeC10 ==
    (Returned /\ input # <<>> /\ ordered /\ AllUnique(input)) =>
        \A j \in DOMAIN output.predictions : Representative(output.predictions[j])

\* an ordered call that keeps a trip whose time at the second set is later
\* than at the first
WitnessC10 ==
    /\ Returned
    /\ ordered
    /\ Len(input) >= 2
    /\ AllUnique(input)
    /\ \E j \in DOMAIN output.predictions :
          \E b \in TimesOf(input[2], output.predictions[j].trip_id) :
              ~DtLE(b, output.predictions[j].estimated_time)

-----------------------------------------------------------------------------
(* Properties of the program (Spec, FairSpec) *)

Stops == 1..nstops

Exited == mainpc = "exited"

PrintedResult == \E k \in DOMAIN stdout : stdout[k].kind = "result"

\* worker i has its Result and it is Ok
Succeeded(i) == wpc[i] \in {"send", "done"} /\ wres[i].kind = "ok"

\* worker i ended in failure: its fetch gave an Err, or it panicked
Failed(i) == wpc[i] = "panicked" \/ (wpc[i] \in {"send", "done"} /\ wres[i].kind = "err")

\* the sets the workers fetched, in the order of the stops
Fetched == [i \in Stops |-> wres[i].value]

\* C3: whatever the order in which the workers complete, the i-th element of
\* the sequence main collects is the set fetched for the i-th stop; the
\* sequence handed to intersect holds one for every stop, and what is printed
\* is an intersection of the fetched sets in the order of the stops.
RequestOrderC3 ==
    /\ \A i \in DOMAIN results : Succeeded(i) /\ results[i] = wres[i].value
    /\ mainpc = "intersect" => results = Fetched
    /\ \A k \in DOMAIN stdout :
          stdout[k].kind = "result" => stdout[k].result \in Intersect(Fetched, ordered)

\* main printed the combined result of two different sets although the
\* second stop's worker completed before the first's
WitnessC3 ==
    /\ Exited
    /\ exit_status = 0
    /\ PrintedResult
    /\ nstops >= 2
    /\ completion[1] = 2
    /\ results[1] # results[2]

\* C4: once a worker has ended in failure, intersect is never called, no
\* combined result is printed and the program ends with a non-zero status;
\* a combined result and status 0 come only with every worker having
\* delivered an Ok.
NoPartialC4 ==
    /\ []((\E i \in Stops : Failed(i)) =>
             /\ mainpc # "intersect"
             /\ ~PrintedResult
             /\ (Exited => exit_status # 0))
    /\ []((PrintedResult \/ (Exited /\ exit_status = 0)) =>
             /\ Exited
             /\ exit_status = 0
             /\ PrintedResult
             /\ \A i \in Stops : wpc[i] = "done" /\ wres[i].kind = "ok")
    /\ ((\E i \in Stops : Failed(i)) ~> (Exited /\ exit_status # 0))

\* the first stop's set was collected, the second stop's worker failed, and
\* the program ended with a non-zero status and no result
WitnessC4 ==
    /\ Exited
    /\ exit_status # 0
    /\ nstops >= 2
    /\ results # <<>>
    /\ \E i \in Stops : Failed(i)
    /\ ~PrintedResult

\* a prediction line with its six fields, each of its type
WellFormedPrediction(line) ==
    /\ line.valid
    /\ line.array
    /\ Len(line.elems) >= 6
    /\ \A k \in 2..4 : line.elems[k].kind = "string"
    /\ line.elems[5].kind = "number" /\ line.elems[5].n >= 0
    /\ line.elems[6].kind = "number"

\* a success status with a body that is empty, or whose metadata line is no
\* JSON array or has fewer than 3 elements, or one of whose prediction lines
\* lacks a field or has one of the wrong type
Malformed(resp) ==
    /\ ~resp.transport_error
    /\ resp.status = 200
    /\ \/ resp.body = <<>>
       \/ ~Head(resp.body).valid
       \/ ~Head(resp.body).array
       \/ Len(Head(resp.body).elems) < 3
       \/ \E k \in 2..Len(resp.body) : ~WellFormedPrediction(resp.body[k])

\* C6: the outcome of a fetch whose feed is malformed is an Err carrying a
\* FeedFormatError, sent to main as every other Result.
ClaimC6 ==
    \A i \in Stops :
        (Malformed(response[i]) /\ wpc[i] # "fetch") =>
            /\ wpc[i] # "panicked"
            /\ wres[i].kind = "err"
            /\ wres[i].error[1] = "FeedFormatError"

\* C9: every worker that has ended has sent on its channel exactly once,
\* whatever its fetch did, and no receive of main finds a channel without
\* its outcome.
ClaimC9 ==
    /\ \A i \in Stops : wpc[i] \in {"done", "panicked"} => sent[i] = 1
    /\ exit_status # 101

-----------------------------------------------------------------------------
(* Properties of datetime_from_millis (MillisSpec) *)

\* C5: for every timestamp, negative ones included, the conversion does not
\* fail, seconds = floor(timestamp / 1000) and nanoseconds =
\* (timestamp mod 1000) * 1000000.
ClaimC5 ==
    mpc = "returned" =>
        /\ ~converted.panicked
        /\ converted.secs = timestamp \div 1000
        /\ converted.nsecs = AsU32((timestamp % 1000) * 1000000)

====
